---- MODULE Spec2Model ----
(***************************************************************************)
(* Model of the ledger replay engine of src/src/main.rs.                   *)
(*                                                                         *)
(* Balances and history amounts are f64 values, as in the program: a sign  *)
(* and a magnitude of at most 53 significant bits, added, subtracted and   *)
(* compared as IEEE 754 does (round to nearest, ties to even).  The amount *)
(* of an input record is the decimal number of its row, a whole number of  *)
(* raw units of 0.0000001, so that an input such as 1.0000001 or 0.00015   *)
(* is expressible and the program's normalisation to four decimals is a    *)
(* real conversion.                                                        *)
(***************************************************************************)
EXTENDS Integers, Sequences, FiniteSets, TLC

VARIABLES
    ledger,     \* Ledger: client id -> Client, for the clients seen so far
    tx_log,     \* transaction log: tx id -> accepted deposit / withdrawal
    result,     \* parse(): "running" in the loop, "ok" = Ok(ledger), "err" = Err
    tx,         \* the record handed to the last call of process_tx (NoTx before)
    outcome,    \* how that call ended: "applied", "rejected" (warning), "fatal"
    n,          \* number of records handed to process_tx so far
    input,      \* the rows still to be read when the input is a given file
    prev,       \* ghost: the ledger before the last record
    disputed,   \* ghost: <<client, tx id>> disputed and not resolved since
    charged,    \* ghost: tx ids charged back and not recorded again since
    negSeen     \* ghost: some deposit / withdrawal so far had an amount < 0

vars ==
    <<ledger, tx_log, result, tx, outcome, n, input, prev, disputed, charged, negSeen>>

----------------------------------------------------------------------------
(* Bounds of the model *)

\* longest input, in records, of the specification with free inputs
MaxRecords == 4

\* client ids (u16) and transaction ids (u32) of the free inputs
Clients == {1, 2}
TxIds == {1, 2}

\* raw units (0.0000001) per unit of 0.0001
RawPerUnit == 1000

\* amounts of the free inputs, in raw units: -0.50005 and 0.1
RawAmounts == {-5000500, 1000000}

----------------------------------------------------------------------------
(* f64 *)

\* An f64 of the model is a sign and a magnitude, the magnitude a whole
\* number of units of 2^-66 in three limbs <<hi, mid, lo>>:
\*     (hi * 2^52 + mid * 2^26 + lo) * 2^-66,  mid < 2^26, lo < 2^26.
\* 2^-66 is the last binary place of the f64 nearest to 0.0001, the least
\* amount apart from zero that the normalisation to four decimals leaves;
\* sums and differences of such values stay on that grid.  A magnitude has at
\* most 53 significant bits, as the significand of an f64.
Limb == 67108864
SignificandBits == 53

F64(neg, mag) == [neg |-> neg, mag |-> mag]

\* 0.0
Zero == F64(FALSE, <<0, 0, 0>>)

\* number of binary digits of x >= 0
RECURSIVE BitLen(_)
BitLen(x) ==
    IF x >= 65536 THEN 16 + BitLen(x \div 65536)
    ELSE IF x >= 256 THEN 8 + BitLen(x \div 256)
    ELSE IF x >= 16 THEN 4 + BitLen(x \div 16)
    ELSE IF x >= 4 THEN 2 + BitLen(x \div 4)
    ELSE IF x >= 2 THEN 2 ELSE x

MagLen(a) ==
    IF a[1] > 0 THEN 52 + BitLen(a[1])
    ELSE IF a[2] > 0 THEN 26 + BitLen(a[2])
    ELSE BitLen(a[3])

MagLt(a, b) ==
    \/ a[1] < b[1]
    \/ a[1] = b[1] /\ a[2] < b[2]
    \/ a[1] = b[1] /\ a[2] = b[2] /\ a[3] < b[3]

MagAdd(a, b) ==
    LET lo == a[3] + b[3]
        mid == a[2] + b[2] + lo \div Limb
    IN  <<a[1] + b[1] + mid \div Limb, mid % Limb, lo % Limb>>

\* a - b for a >= b
MagSub(a, b) ==
    LET lo == a[3] - b[3]
        bl == IF lo < 0 THEN 1 ELSE 0
        mid == a[2] - b[2] - bl
        bm == IF mid < 0 THEN 1 ELSE 0
    IN  <<a[1] - b[1] - bm, mid + bm * Limb, lo + bl * Limb>>

\* The magnitude a, followed by a fraction of a unit (frac = 0: none, 1: less
\* than half a unit, 3: more than half), rounded to 53 significant bits, to
\* the nearest, a tie to the even significand.
Round53(a, frac) ==
    LET s == MagLen(a) - SignificandBits IN
    IF s <= 0 THEN (IF frac = 3 THEN MagAdd(a, <<0, 0, 1>>) ELSE a)
    ELSE LET low == IF s <= 26 THEN a[3] % (2^s)
                    ELSE (a[2] % (2^(s - 26))) * Limb + a[3]
             half == 2^(s - 1)
             lsb == IF s < 26 THEN (a[3] \div (2^s)) % 2
                    ELSE (a[2] \div (2^(s - 26))) % 2
             up == low > half \/ (low = half /\ (frac # 0 \/ lsb = 1))
             trunc == IF s <= 26 THEN <<a[1], a[2], a[3] - low>>
                      ELSE <<a[1], a[2] - (a[2] % (2^(s - 26))), 0>>
             one == IF s < 26 THEN <<0, 0, 2^s>> ELSE <<0, 2^(s - 26), 0>>
         IN  IF up THEN MagAdd(trunc, one) ELSE trunc

\* -x
FNeg(x) == F64(~x.neg, x.mag)

\* x + y
FAdd(x, y) ==
    IF x.neg = y.neg THEN F64(x.neg, Round53(MagAdd(x.mag, y.mag), 0))
    ELSE IF x.mag = y.mag THEN Zero
    ELSE IF MagLt(x.mag, y.mag) THEN F64(y.neg, Round53(MagSub(y.mag, x.mag), 0))
    ELSE F64(x.neg, Round53(MagSub(x.mag, y.mag), 0))

\* x - y
FSub(x, y) == FAdd(x, FNeg(y))

\* x < y; -0.0 and 0.0 are equal
FLt(x, y) ==
    IF x.neg /\ y.neg THEN MagLt(y.mag, x.mag)
    ELSE IF x.neg THEN x.mag # Zero.mag \/ y.mag # Zero.mag
    ELSE IF y.neg THEN FALSE
    ELSE MagLt(x.mag, y.mag)

\* x == y
FEq(x, y) == ~FLt(x, y) /\ ~FLt(y, x)

\* x >= y
FGe(x, y) == ~FLt(x, y)

----------------------------------------------------------------------------
(* Normalisation of an amount to four decimals *)

\* 2^e modulo m
RECURSIVE PowMod2(_, _)
PowMod2(e, m) ==
    IF e = 0 THEN 1 % m
    ELSE LET h == PowMod2(e \div 2, m) IN
         IF e % 2 = 0 THEN (h * h) % m ELSE (2 * h * h) % m

\* the least i >= 0 with a < b * 2^i
RECURSIVE Doublings(_, _)
Doublings(a, b) == IF a < b THEN 0 ELSE 1 + Doublings(a, 2 * b)

\* An amount of the input that lies halfway between two multiples of 0.0001
\* is x = (2 * q + 1) / 20000.  The f64 read from it is x * 2^e rounded to a
\* whole number, for the e that brings x * 2^e into 2^52 .. 2^53; what is
\* left of x * 2^e tells whether that f64 lies below x, on x or above x:
\* -1, 0, 1.
TieDen == 20000
TieSide(q) ==
    LET m == 2 * q + 1
        e == IF m < TieDen THEN 52 + Doublings(TieDen - 1, m)
             ELSE 53 - Doublings(m, TieDen)
        left == ((m % TieDen) * PowMod2(e, TieDen)) % TieDen
    IN  IF left = 0 THEN 0 ELSE IF 2 * left < TieDen THEN -1 ELSE 1

\* format!("{:.4}", x) for x the f64 read from the input amount a (in raw
\* units): the sign and the digits, as a whole number of units of 0.0001.
\* The f64 is rounded to the nearest multiple of 0.0001; it lies halfway only
\* when it is the input exactly, and then goes to the even multiple.
Format4(a) ==
    LET m == IF a < 0 THEN -a ELSE a
        q == m \div RawPerUnit
        r == m % RawPerUnit
        side == IF 2 * r # RawPerUnit THEN 2 * r - RawPerUnit ELSE TieSide(q)
    IN  <<a < 0, IF side < 0 THEN q
                 ELSE IF side > 0 THEN q + 1
                 ELSE IF q % 2 = 0 THEN q ELSE q + 1>>

\* <<quotient, remainder>> of the four limbs d by v, v * Limb within the
\* integers of the model
DivLimbs(d, v) ==
    LET c3 == d[1]
        c2 == (c3 % v) * Limb + d[2]
        c1 == (c2 % v) * Limb + d[3]
        c0 == (c1 % v) * Limb + d[4]
    IN  <<(<<c3 \div v, c2 \div v, c1 \div v, c0 \div v>>), c0 % v>>

\* "d.dddd".parse::<f64>(): the f64 nearest to k / 10^4, for the sign and the
\* digits s = <<neg, k>>.  k / 10^4 in units of 2^-66 is k * 2^62 / 5^4.
Parse4(s) ==
    LET k == s[2]
        d == <<k \div 65536, (k % 65536) * 1024, 0, 0>>
        by25 == DivLimbs(d, 25)
        by625 == DivLimbs(by25[1], 25)
        q == by625[1]
        r == by625[2] * 25 + by25[2]
        frac == IF r = 0 THEN 0 ELSE IF 2 * r < 625 THEN 1 ELSE 3
    IN  F64(s[1], Round53(<<q[1] * Limb + q[2], q[3], q[4]>>, frac))

\* Normalize rounding every amount up
NormalizeUp(a) ==
    LET m == IF a < 0 THEN -a ELSE a IN
    Parse4(<<a < 0, (m + RawPerUnit - 1) \div RawPerUnit>>)

\* format!("{:.4}", amount).parse::<f64>(), from the amount a of the input in
\* raw units
Normalize(a) == Parse4(Format4(a))

\* the f64 written with the digits k, a whole number of units of 0.0001
Dec(k) == Parse4(<<k < 0, IF k < 0 THEN -k ELSE k>>)

----------------------------------------------------------------------------
(* Data model *)

\* Option<f64>; the amount of an input record is Some(raw units)
None == <<>>
Some(a) == <<a>>
unwrap(o) == o[1]

Kinds == {"deposit", "withdrawal", "dispute", "resolve", "chargeback"}
\* a kind string that is none of the five
OtherKind == "transfer"

\* struct Transaction
Transaction(kind, client, id, amount) ==
    [kind |-> kind, client |-> client, tx |-> id, amount |-> amount]

\* the value of tx before any record was processed
NoTx == Transaction("", 0, 0, None)

\* a new Client that starts out locked
NewClientLocked(c) ==
    [client |-> c, available |-> Zero, held |-> Zero, total |-> Zero, locked |-> TRUE]

\* the Client inserted for a client id seen for the first time
NewClient(c) ==
    [client |-> c, available |-> Zero, held |-> Zero, total |-> Zero, locked |-> FALSE]

\* HashMap::insert and HashMap::remove
Insert(m, k, v) == [x \in DOMAIN m \cup {k} |-> IF x = k THEN v ELSE m[x]]
Remove(m, k) == [x \in DOMAIN m \ {k} |-> m[x]]
EmptyMap == [x \in {} |-> 0]

----------------------------------------------------------------------------
(* process_tx *)

\* what a call of process_tx leaves: the two maps and how it returned
Ret(l, log, how) == [ledger |-> l, tx_log |-> log, outcome |-> how]

\* get client entry or create it if it does not exist
GetOrCreate(l, c) == IF c \in DOMAIN l THEN l ELSE Insert(l, c, NewClient(c))

\* Deposit that keeps the log entry its tx id already has
DepositKeepsFirst(l, log, t) ==
    LET client == l[t.client] IN
    IF t.amount = None THEN Ret(l, log, "fatal")
    ELSE LET amount == Normalize(unwrap(t.amount)) IN
         IF client.locked THEN Ret(l, log, "rejected")
         ELSE Ret(Insert(l, t.client,
                         [client EXCEPT !.total = FAdd(@, amount),
                                        !.available = FAdd(@, amount)]),
                  IF t.tx \in DOMAIN log THEN log
                  ELSE Insert(log, t.tx, [t EXCEPT !.amount = Some(amount)]),
                  "applied")

\* Deposit without the test of the locked flag
DepositIgnoresLock(l, log, t) ==
    LET client == l[t.client] IN
    IF t.amount = None THEN Ret(l, log, "fatal")
    ELSE LET amount == Normalize(unwrap(t.amount)) IN
         Ret(Insert(l, t.client,
                    [client EXCEPT !.total = FAdd(@, amount),
                                   !.available = FAdd(@, amount)]),
             Insert(log, t.tx, [t EXCEPT !.amount = Some(amount)]),
             "applied")

\* Deposit taking a missing amount for a rejection, not for an error
DepositSkipsNoAmount(l, log, t) ==
    LET client == l[t.client] IN
    IF t.amount = None THEN Ret(l, log, "rejected")
    ELSE LET amount == Normalize(unwrap(t.amount)) IN
         IF client.locked THEN Ret(l, log, "rejected")
         ELSE Ret(Insert(l, t.client,
                         [client EXCEPT !.total = FAdd(@, amount),
                                        !.available = FAdd(@, amount)]),
                  Insert(log, t.tx, [t EXCEPT !.amount = Some(amount)]),
                  "applied")

Deposit(l, log, t) ==
    LET client == l[t.client] IN
    IF t.amount = None THEN Ret(l, log, "fatal")
    ELSE LET amount == Normalize(unwrap(t.amount)) IN
         IF client.locked THEN Ret(l, log, "rejected")
         ELSE Ret(Insert(l, t.client,
                         [client EXCEPT !.total = FAdd(@, amount),
                                        !.available = FAdd(@, amount)]),
                  Insert(log, t.tx, [t EXCEPT !.amount = Some(amount)]),
                  "applied")

\* Withdrawal without the test of the available funds
WithdrawalOverdraws(l, log, t) ==
    LET client == l[t.client] IN
    IF t.amount = None THEN Ret(l, log, "fatal")
    ELSE LET amount == Normalize(unwrap(t.amount)) IN
         IF client.locked THEN Ret(l, log, "rejected")
         ELSE Ret(Insert(l, t.client,
                         [client EXCEPT !.total = FSub(@, amount),
                                        !.available = FSub(@, amount)]),
                  Insert(log, t.tx, [t EXCEPT !.amount = Some(amount)]),
                  "applied")

Withdrawal(l, log, t) ==
    LET client == l[t.client] IN
    IF t.amount = None THEN Ret(l, log, "fatal")
    ELSE LET amount == Normalize(unwrap(t.amount)) IN
         IF client.locked THEN Ret(l, log, "rejected")
         ELSE IF FLt(client.available, amount) THEN Ret(l, log, "rejected")
         ELSE Ret(Insert(l, t.client,
                         [client EXCEPT !.total = FSub(@, amount),
                                        !.available = FSub(@, amount)]),
                  Insert(log, t.tx, [t EXCEPT !.amount = Some(amount)]),
                  "applied")

\* Dispute that moves the funds of the client who made the transaction
DisputeMovesOwner(l, log, t) ==
    IF t.tx \notin DOMAIN log THEN Ret(l, log, "rejected")
    ELSE LET amount == unwrap(log[t.tx].amount)
             client == l[log[t.tx].client]
         IN  IF FLt(client.available, amount) THEN Ret(l, log, "rejected")
             ELSE Ret(Insert(l, log[t.tx].client,
                             [client EXCEPT !.available = FSub(@, amount),
                                            !.held = FAdd(@, amount)]),
                      log, "applied")

\* Dispute that puts its own record into the log
DisputeLogsItself(l, log, t) ==
    LET client == l[t.client] IN
    IF t.tx \notin DOMAIN log THEN Ret(l, log, "rejected")
    ELSE LET amount == unwrap(log[t.tx].amount) IN
         IF FLt(client.available, amount) THEN Ret(l, log, "rejected")
         ELSE Ret(Insert(l, t.client,
                         [client EXCEPT !.available = FSub(@, amount),
                                        !.held = FAdd(@, amount)]),
                  Insert(log, t.tx, t), "applied")

\* Dispute turned away from a locked account
DisputeBlockedByLock(l, log, t) ==
    LET client == l[t.client] IN
    IF t.tx \notin DOMAIN log THEN Ret(l, log, "rejected")
    ELSE LET amount == unwrap(log[t.tx].amount) IN
         IF client.locked THEN Ret(l, log, "rejected")
         ELSE IF FLt(client.available, amount) THEN Ret(l, log, "rejected")
         ELSE Ret(Insert(l, t.client,
                         [client EXCEPT !.available = FSub(@, amount),
                                        !.held = FAdd(@, amount)]),
                  log, "applied")

\* Dispute that accepts only a logged deposit
DisputeOnlyDeposits(l, log, t) ==
    LET client == l[t.client] IN
    IF t.tx \notin DOMAIN log THEN Ret(l, log, "rejected")
    ELSE LET amount == unwrap(log[t.tx].amount) IN
         IF log[t.tx].kind # "deposit" THEN Ret(l, log, "rejected")
         ELSE IF FLt(client.available, amount) THEN Ret(l, log, "rejected")
         ELSE Ret(Insert(l, t.client,
                         [client EXCEPT !.available = FSub(@, amount),
                                        !.held = FAdd(@, amount)]),
                  log, "applied")

Dispute(l, log, t) ==
    LET client == l[t.client] IN
    IF t.tx \notin DOMAIN log THEN Ret(l, log, "rejected")
    ELSE LET amount == unwrap(log[t.tx].amount) IN
         IF FLt(client.available, amount) THEN Ret(l, log, "rejected")
         ELSE Ret(Insert(l, t.client,
                         [client EXCEPT !.available = FSub(@, amount),
                                        !.held = FAdd(@, amount)]),
                  log, "applied")

\* Resolve without the test of the held funds
ResolveOverdraws(l, log, t) ==
    LET client == l[t.client] IN
    IF t.tx \notin DOMAIN log THEN Ret(l, log, "rejected")
    ELSE LET amount == unwrap(log[t.tx].amount) IN
         Ret(Insert(l, t.client,
                    [client EXCEPT !.held = FSub(@, amount),
                                   !.available = FAdd(@, amount)]),
             log, "applied")

Resolve(l, log, t) ==
    LET client == l[t.client] IN
    IF t.tx \notin DOMAIN log THEN Ret(l, log, "rejected")
    ELSE LET amount == unwrap(log[t.tx].amount) IN
         IF FLt(client.held, amount) THEN Ret(l, log, "rejected")
         ELSE Ret(Insert(l, t.client,
                         [client EXCEPT !.held = FSub(@, amount),
                                        !.available = FAdd(@, amount)]),
                  log, "applied")

\* Chargeback that locks the account before it looks at the entry's kind
ChargebackLocksFirst(l, log, t) ==
    LET client == l[t.client] IN
    IF t.tx \notin DOMAIN log THEN Ret(l, log, "rejected")
    ELSE LET tx_context == log[t.tx]
             removed == Remove(log, t.tx)
         IN  IF tx_context.kind # "deposit"
             THEN Ret(Insert(l, t.client, [client EXCEPT !.locked = TRUE]),
                      Insert(removed, t.tx, tx_context), "rejected")
             ELSE LET amount == unwrap(tx_context.amount) IN
                  Ret(Insert(l, t.client,
                             [client EXCEPT !.locked = TRUE,
                                            !.held = FSub(@, amount),
                                            !.total = FSub(@, amount)]),
                      removed, "applied")

\* Chargeback that does not put a removed withdrawal back into the log
ChargebackDropsWithdrawal(l, log, t) ==
    LET client == l[t.client] IN
    IF t.tx \notin DOMAIN log THEN Ret(l, log, "rejected")
    ELSE LET tx_context == log[t.tx]
             removed == Remove(log, t.tx)
         IN  IF tx_context.kind # "deposit"
             THEN Ret(l, removed, "rejected")
             ELSE LET amount == unwrap(tx_context.amount) IN
                  Ret(Insert(l, t.client,
                             [client EXCEPT !.locked = TRUE,
                                            !.held = FSub(@, amount),
                                            !.total = FSub(@, amount)]),
                      removed, "applied")

\* Chargeback that looks the transaction up and leaves it in the log
ChargebackKeepsEntry(l, log, t) ==
    LET client == l[t.client] IN
    IF t.tx \notin DOMAIN log THEN Ret(l, log, "rejected")
    ELSE LET tx_context == log[t.tx] IN
         IF tx_context.kind # "deposit"
         THEN Ret(l, log, "rejected")
         ELSE LET amount == unwrap(tx_context.amount) IN
              Ret(Insert(l, t.client,
                         [client EXCEPT !.locked = TRUE,
                                        !.held = FSub(@, amount),
                                        !.total = FSub(@, amount)]),
                  log, "applied")

\* Chargeback that takes the amount from held and not from total
ChargebackKeepsTotal(l, log, t) ==
    LET client == l[t.client] IN
    IF t.tx \notin DOMAIN log THEN Ret(l, log, "rejected")
    ELSE LET tx_context == log[t.tx]
             removed == Remove(log, t.tx)
         IN  IF tx_context.kind # "deposit"
             THEN Ret(l, Insert(removed, t.tx, tx_context), "rejected")
             ELSE LET amount == unwrap(tx_context.amount) IN
                  Ret(Insert(l, t.client,
                             [client EXCEPT !.locked = TRUE,
                                            !.held = FSub(@, amount)]),
                      removed, "applied")

Chargeback(l, log, t) ==
    LET client == l[t.client] IN
    IF t.tx \notin DOMAIN log THEN Ret(l, log, "rejected")
    ELSE LET tx_context == log[t.tx]
             removed == Remove(log, t.tx)
         IN  IF tx_context.kind # "deposit"
             THEN Ret(l, Insert(removed, t.tx, tx_context), "rejected")
             ELSE LET amount == unwrap(tx_context.amount) IN
                  Ret(Insert(l, t.client,
                             [client EXCEPT !.locked = TRUE,
                                            !.held = FSub(@, amount),
                                            !.total = FSub(@, amount)]),
                      removed, "applied")

process_tx(l0, log, t) ==
    LET l == GetOrCreate(l0, t.client) IN
    CASE t.kind = "deposit"    -> Deposit(l, log, t)
      [] t.kind = "withdrawal" -> Withdrawal(l, log, t)
      [] t.kind = "dispute"    -> Dispute(l, log, t)
      [] t.kind = "resolve"    -> Resolve(l, log, t)
      [] t.kind = "chargeback" -> Chargeback(l, log, t)
      [] OTHER                 -> Ret(l, log, "fatal")

----------------------------------------------------------------------------
(* parse: the loop over the rows of the input *)

\* what rdr.deserialize() yields for a row: Ok(record), or Err for a row that
\* is no record (a client id, tx id or amount that is no number, a missing
\* field, ...)
Ok(t) == [ok |-> TRUE, record |-> t]
Err == [ok |-> FALSE, record |-> NoTx]

\* The records the free inputs are drawn from.  A record that is no deposit
\* or withdrawal carries no amount, as in the input format.  A record that
\* fails before its tx id is used (no amount, unknown kind) has tx id 1.
Records ==
    {Transaction(k, c, t, Some(a)) : k \in {"deposit", "withdrawal"}, c \in Clients,
                                     t \in TxIds, a \in RawAmounts}
    \cup
    {Transaction(k, c, t, None) : k \in {"dispute", "resolve", "chargeback"},
                                  c \in Clients, t \in TxIds}
    \cup
    {Transaction(k, c, 1, None) : k \in {"deposit", "withdrawal", OtherKind},
                                  c \in Clients}

\* the rows of the free inputs
Rows == {Ok(t) : t \in Records} \cup {Err}

IsMoney(t) == t.kind \in {"deposit", "withdrawal"}

\* the ghost variables after record t ended as `how`
DisputedAfter(t, how) ==
    IF how # "applied" THEN disputed
    ELSE IF t.kind = "dispute" THEN disputed \cup {<<t.client, t.tx>>}
    ELSE IF t.kind = "resolve" THEN disputed \ {<<t.client, t.tx>>}
    ELSE {p \in disputed : p[2] # t.tx}

ChargedAfter(t, how) ==
    IF how # "applied" THEN charged
    ELSE IF t.kind = "chargeback" THEN charged \cup {t.tx}
    ELSE IF IsMoney(t) THEN charged \ {t.tx}
    ELSE charged

NegSeenAfter(t) ==
    negSeen \/ (IsMoney(t) /\ t.amount # None /\ unwrap(t.amount) < 0)

\* one turn of the loop on the row the reader yields: `result?` leaves the
\* loop on Err before process_tx is called; on Ok(record), process_tx on the
\* record, `?` leaving the loop when it answers Err
Step(row) ==
    /\ result = "running"
    /\ IF row.ok
       THEN \E r \in {process_tx(ledger, tx_log, row.record)} :
               /\ ledger' = r.ledger
               /\ tx_log' = r.tx_log
               /\ outcome' = r.outcome
               /\ result' = IF r.outcome = "fatal" THEN "err" ELSE "running"
               /\ tx' = row.record
               /\ n' = n + 1
               /\ prev' = ledger
               /\ disputed' = DisputedAfter(row.record, r.outcome)
               /\ charged' = ChargedAfter(row.record, r.outcome)
               /\ negSeen' = NegSeenAfter(row.record)
       ELSE /\ result' = "err"
            /\ UNCHANGED <<ledger, tx_log, tx, outcome, n, prev, disputed,
                           charged, negSeen>>

\* the next row of a free input
ParseRecord(row) ==
    /\ input = <<>>
    /\ n < MaxRecords
    /\ Step(row)
    /\ UNCHANGED input

\* the next row of a given input
ReplayRecord ==
    /\ input # <<>>
    /\ Step(Head(input))
    /\ input' = Tail(input)

\* the input is exhausted: Ok(ledger); the record and the transaction log
\* are locals of the loop and of parse, and are gone
ParseEnd ==
    /\ result = "running"
    /\ input = <<>>
    /\ result' = "ok"
    /\ tx' = NoTx
    /\ outcome' = "none"
    /\ tx_log' = EmptyMap
    /\ prev' = ledger
    /\ disputed' = {}
    /\ charged' = {}
    /\ UNCHANGED <<ledger, n, input, negSeen>>

InitState ==
    /\ ledger = EmptyMap
    /\ tx_log = EmptyMap
    /\ result = "running"
    /\ tx = NoTx
    /\ outcome = "none"
    /\ n = 0
    /\ prev = EmptyMap
    /\ disputed = {}
    /\ charged = {}
    /\ negSeen = FALSE

Init == InitState /\ input = <<>>

Next == (\E row \in Rows : ParseRecord(row)) \/ ParseEnd

Spec == Init /\ [][Next]_vars

----------------------------------------------------------------------------
(* Replay of the input of test_parse, and of every input obtained from it  *)
(* by leaving rows out                                                     *)

\* the rows of test_parse; amounts 1.0000001, 2.0, 0.5, 2.0, 1.5, 3.0
Scenario ==
    << Ok(Transaction("deposit", 1, 1, Some(10000001))),
       Ok(Transaction("deposit", 2, 2, Some(20000000))),
       Ok(Transaction("deposit", 1, 3, Some(5000000))),
       Ok(Transaction("deposit", 1, 4, Some(20000000))),
       Ok(Transaction("withdrawal", 1, 5, Some(15000000))),
       Ok(Transaction("withdrawal", 2, 6, Some(30000000))),
       Ok(Transaction("dispute", 1, 1, None)),
       Ok(Transaction("resolve", 1, 1, None)),
       Ok(Transaction("dispute", 1, 3, None)),
       Ok(Transaction("dispute", 1, 1, None)),
       Ok(Transaction("chargeback", 1, 1, None)) >>

\* the rows of s at the positions in keep, from position i on, in order
RECURSIVE Pick(_, _, _)
Pick(s, keep, i) ==
    IF i > Len(s) THEN <<>>
    ELSE (IF i \in keep THEN <<s[i]>> ELSE <<>>) \o Pick(s, keep, i + 1)

InitReplay ==
    /\ InitState
    /\ input \in {Pick(Scenario, keep, 1) : keep \in SUBSET (1..Len(Scenario))}

NextReplay == ReplayRecord \/ ParseEnd

SpecReplay == InitReplay /\ [][NextReplay]_vars

----------------------------------------------------------------------------
(* Replay of an input with amounts that are no binary fractions, and of    *)
(* every input obtained from it by leaving rows out                        *)

\* amounts 0.1, 0.7, 0.7, 0.1
DriftInput ==
    << Ok(Transaction("deposit", 1, 1, Some(1000000))),
       Ok(Transaction("dispute", 1, 1, None)),
       Ok(Transaction("deposit", 1, 2, Some(7000000))),
       Ok(Transaction("withdrawal", 1, 3, Some(7000000))),
       Ok(Transaction("resolve", 1, 1, None)),
       Ok(Transaction("withdrawal", 1, 4, Some(1000000))) >>

InitDrift ==
    /\ InitState
    /\ input \in {Pick(DriftInput, keep, 1) : keep \in SUBSET (1..Len(DriftInput))}

SpecDrift == InitDrift /\ [][NextReplay]_vars

----------------------------------------------------------------------------
(* Properties *)

\* the account of client c as process_tx finds it in ledger l: the entry, or
\* the zeroed entry it creates
Acct(l, c) == IF c \in DOMAIN l THEN l[c] ELSE NewClient(c)

\* this step handed a record to process_tx
Processed == n' = n + 1

\* every account after the step is as it was before, a new one being zeroed
NoAccountChanged == \A c \in DOMAIN ledger' : ledger'[c] = Acct(ledger, c)

\* the magnitude a times v, for v * Limb within the integers of the model
MulLimbs(a, v) ==
    LET lo == a[3] * v
        mid == a[2] * v + lo \div Limb
    IN  <<a[1] * v + mid \div Limb, mid % Limb, lo % Limb>>

\* The balance x as an amount of fixed 4-decimal precision: the whole number
\* of units of 0.0001 nearest to it.  x is mag * 2^-66, so x / 0.0001 is
\* mag * 625 / 2^62, and 2^62 is 1024 times the weight of the first limb.
Units(x) ==
    LET p == MulLimbs(MulLimbs(x.mag, 25), 25)
        k == p[1] \div 1024 + (IF p[1] % 1024 >= 512 THEN 1 ELSE 0)
    IN  IF x.neg THEN -k ELSE k

\* the f64 fields of account c have drifted apart: total is not the f64 sum
\* of available and held
Drifted(c) == ~FEq(ledger[c].total, FAdd(ledger[c].available, ledger[c].held))

\* C1: after every processed record, accepted, rejected or fatal, every
\* account has total == available + held, the three amounts taken as whole
\* numbers of units of 0.0001.
C1_TotalIsAvailablePlusHeld ==
    \A c \in DOMAIN ledger :
        Units(ledger[c].total) = Units(ledger[c].available) + Units(ledger[c].held)

\* records were processed and left an account that holds funds and whose f64
\* total is no longer the f64 sum of available and held
C1_Witness ==
    /\ n > 0
    /\ \E c \in DOMAIN ledger :
          /\ Drifted(c)
          /\ Units(ledger[c].total) # 0
          /\ Units(ledger[c].held) # 0

\* C2: once an account is locked, a deposit or withdrawal record of that
\* client leaves its available, held and total as they were and leaves the
\* transaction log as it was.
C2_LockedBlocksDepositWithdrawal ==
    [][\A c \in DOMAIN ledger :
          (Processed /\ ledger[c].locked /\ IsMoney(tx') /\ tx'.client = c)
          => /\ ledger'[c].available = ledger[c].available
             /\ ledger'[c].held = ledger[c].held
             /\ ledger'[c].total = ledger[c].total
             /\ tx_log' = tx_log]_vars

\* a deposit with an amount was turned away from a locked account
C2_Witness ==
    /\ tx.kind = "deposit"
    /\ tx.amount # None
    /\ outcome = "rejected"
    /\ ledger[tx.client].locked

\* a record that process_tx answers with Err: a deposit or withdrawal without
\* amount, or a kind that is none of the five
IsFatalRecord(t) == (IsMoney(t) /\ t.amount = None) \/ t.kind \notin Kinds

\* C3: a deposit or withdrawal without amount, or a record of unknown kind,
\* ends the run with an error: it changes no balance and no log entry, the
\* run yields Err, and after the error no record is applied.
C3_FatalRecordEndsRun ==
    [][/\ (Processed /\ IsFatalRecord(tx'))
          => /\ result' = "err"
             /\ tx_log' = tx_log
             /\ NoAccountChanged
       /\ result = "err"
          => /\ ledger' = ledger
             /\ tx_log' = tx_log
             /\ n' = n
             /\ result' = "err"]_vars

\* a withdrawal without amount on a locked account ended the run
C3_Witness ==
    /\ result = "err"
    /\ tx.kind = "withdrawal"
    /\ tx.amount = None
    /\ ledger[tx.client].locked

\* the rejections of the program, decided on the state before record t:
\* deposit or withdrawal on a locked account, withdrawal of more than is
\* available, dispute of an unknown tx or of more than is available, resolve
\* of an unknown tx or of more than is held, chargeback of an unknown tx or
\* of an entry that is no deposit
IsRejectedRecord(l, log, t) ==
    LET a == Acct(l, t.client) IN
    \/ IsMoney(t) /\ t.amount # None /\ a.locked
    \/ t.kind = "withdrawal" /\ t.amount # None
         /\ FLt(a.available, Normalize(unwrap(t.amount)))
    \/ t.kind = "dispute"
         /\ (t.tx \notin DOMAIN log \/ FLt(a.available, unwrap(log[t.tx].amount)))
    \/ t.kind = "resolve"
         /\ (t.tx \notin DOMAIN log \/ FLt(a.held, unwrap(log[t.tx].amount)))
    \/ t.kind = "chargeback"
         /\ (t.tx \notin DOMAIN log \/ log[t.tx].kind # "deposit")

\* C4 as claimed: a rejected record leaves the ledger exactly as it was (the
\* same accounts with the same fields) and the log as it was, and the run
\* goes on.
C4_RejectedLeavesLedgerAsItWas ==
    [][(Processed /\ IsRejectedRecord(ledger, tx_log, tx'))
          => /\ ledger' = ledger
             /\ tx_log' = tx_log
             /\ result' = "running"]_vars

\* C4 as amended: a rejected record leaves every account that existed as it
\* was and the log as it was, and the run goes on; the one change it can make
\* is the zeroed, unlocked account of its own client when that had none.
C4_RejectedChangesNoAccount ==
    [][(Processed /\ IsRejectedRecord(ledger, tx_log, tx'))
          => /\ DOMAIN ledger' = DOMAIN ledger \cup {tx'.client}
             /\ NoAccountChanged
             /\ tx_log' = tx_log
             /\ result' = "running"]_vars

\* a chargeback was rejected for naming a withdrawal, which is still logged
C4_Witness ==
    /\ tx.kind = "chargeback"
    /\ outcome = "rejected"
    /\ tx.tx \in DOMAIN tx_log
    /\ tx_log[tx.tx].kind = "withdrawal"

\* C5: the replay of the records of test_parse ends with Ok and exactly two
\* accounts: client 1 with total 1.0, available 0.5, held 0.5, locked, and
\* client 2 with total 2.0, available 2.0, held 0.0, not locked; the amount
\* 1.0000001 of tx 1 is logged as 1.0000.
C5_ScenarioResult ==
    /\ (result = "ok" /\ n = Len(Scenario))
       => /\ DOMAIN ledger = {1, 2}
          /\ ledger[1] = [client |-> 1, available |-> Dec(5000), held |-> Dec(5000),
                          total |-> Dec(10000), locked |-> TRUE]
          /\ ledger[2] = [client |-> 2, available |-> Dec(20000), held |-> Dec(0),
                          total |-> Dec(20000), locked |-> FALSE]
    /\ 1 \in DOMAIN tx_log => tx_log[1].amount = Some(Dec(10000))

\* the whole of test_parse's input was replayed and the run ended with Ok
C5_Witness == result = "ok" /\ n = Len(Scenario) /\ input = <<>> /\ ledger # EmptyMap

\* C6 as claimed: an accepted dispute of tx t by client c followed at once by
\* a resolve of t by c brings c's available and held back to their values
\* before the dispute, and c's total is the same before the dispute, between
\* the two records and after the resolve.
C6_DisputeResolveRoundTrip ==
    [][(/\ tx.kind = "dispute" /\ outcome = "applied"
        /\ Processed
        /\ tx'.kind = "resolve" /\ tx'.client = tx.client /\ tx'.tx = tx.tx)
          => LET before == Acct(prev, tx.client)
                 between == ledger[tx.client]
                 after == ledger'[tx.client]
             IN  /\ after.available = before.available
                 /\ after.held = before.held
                 /\ between.total = before.total
                 /\ after.total = before.total]_vars

\* C7: after a chargeback on tx t was applied, t is absent from the log, and
\* until a deposit or withdrawal with id t is accepted every chargeback on t
\* changes no account (no balance, no lock) and leaves the log as it was.
C7_ChargebackIsFinal ==
    [][/\ (Processed /\ tx'.kind = "chargeback" /\ outcome' = "applied")
          => tx'.tx \in charged'
       /\ \A t \in charged' : t \notin DOMAIN tx_log'
       /\ (Processed /\ tx'.kind = "chargeback" /\ tx'.tx \in charged)
          => /\ NoAccountChanged
             /\ tx_log' = tx_log
             /\ outcome' = "rejected"]_vars

\* a second chargeback on a charged-back tx by the locked client was ignored
C7_Witness ==
    /\ tx.kind = "chargeback"
    /\ outcome = "rejected"
    /\ tx.tx \in charged
    /\ ledger[tx.client].locked
    /\ ledger[tx.client].total = Zero

\* C8 as claimed: a dispute of tx t by client c, after an accepted dispute of
\* t by c that no resolve has undone, leaves c's available as it was.
C8_RedisputeLeavesAvailable ==
    [][(Processed /\ tx'.kind = "dispute" /\ <<tx'.client, tx'.tx>> \in disputed)
          => ledger'[tx'.client].available = ledger[tx'.client].available]_vars

\* tx id t names a logged deposit that was disputed and not resolved since
UnderDispute(t) ==
    /\ t \in DOMAIN tx_log
    /\ tx_log[t].kind = "deposit"
    /\ \E p \in disputed : p[2] = t

\* C9 as claimed: a chargeback on a tx that is no deposit under dispute
\* changes no balance and locks no account.
C9_ChargebackNeedsDispute ==
    [][(Processed /\ tx'.kind = "chargeback" /\ ~UnderDispute(tx'.tx))
          => NoAccountChanged]_vars

\* C10 as claimed: while no deposit or withdrawal had a negative amount,
\* every account has available >= 0, every unlocked account has held >= 0
\* and total >= 0, and held or total of an account becomes negative only in
\* the step that applies a chargeback of that client.
C10_NonNegative ==
    [][~negSeen'
          => \A c \in DOMAIN ledger' :
                /\ FGe(ledger'[c].available, Zero)
                /\ ~ledger'[c].locked
                   => (FGe(ledger'[c].held, Zero) /\ FGe(ledger'[c].total, Zero))
                /\ (\/ (FLt(ledger'[c].held, Zero) /\ FGe(Acct(ledger, c).held, Zero))
                    \/ (FLt(ledger'[c].total, Zero) /\ FGe(Acct(ledger, c).total, Zero)))
                   => /\ tx'.kind = "chargeback"
                      /\ tx'.client = c
                      /\ outcome' = "applied"]_vars

\* C11: on a locked account a dispute of a logged tx with available >= amount
\* still moves the amount from available to held, a resolve with
\* held >= amount still moves it back, and a chargeback on a logged deposit
\* still takes the amount from held and total.
C11_LockedStillDisputes ==
    [][\A c \in DOMAIN ledger :
          (/\ Processed /\ ledger[c].locked /\ tx'.client = c
           /\ tx'.kind \in {"dispute", "resolve", "chargeback"}
           /\ tx'.tx \in DOMAIN tx_log)
          => LET a == unwrap(tx_log[tx'.tx].amount) IN
             /\ (tx'.kind = "dispute" /\ FGe(ledger[c].available, a))
                => ledger'[c] = [ledger[c] EXCEPT !.available = FSub(@, a),
                                                  !.held = FAdd(@, a)]
             /\ (tx'.kind = "resolve" /\ FGe(ledger[c].held, a))
                => ledger'[c] = [ledger[c] EXCEPT !.held = FSub(@, a),
                                                  !.available = FAdd(@, a)]
             /\ (tx'.kind = "chargeback" /\ tx_log[tx'.tx].kind = "deposit")
                => ledger'[c] = [ledger[c] EXCEPT !.held = FSub(@, a),
                                                  !.total = FSub(@, a)]]_vars

\* a dispute moved funds of an account that was locked before it
C11_Witness ==
    /\ tx.kind = "dispute"
    /\ outcome = "applied"
    /\ tx.client \in DOMAIN prev
    /\ prev[tx.client].locked
    /\ ledger[tx.client].available # prev[tx.client].available

\* C12: a withdrawal with (normalised) amount a on client c is applied if and
\* only if c is unlocked and c.available >= a; applied, it takes exactly a
\* from available and from total, leaves held and locked, and is stored in
\* the log under its tx id; not applied, it leaves balances and log alone.
C12_Withdrawal ==
    [][(Processed /\ tx'.kind = "withdrawal" /\ tx'.amount # None)
          => LET c == tx'.client
                 acc == Acct(ledger, c)
                 a == Normalize(unwrap(tx'.amount))
             IN  /\ outcome' = "applied" <=> (~acc.locked /\ FGe(acc.available, a))
                 /\ outcome' = "applied"
                    => /\ ledger'[c] = [acc EXCEPT !.available = FSub(@, a),
                                                   !.total = FSub(@, a)]
                       /\ tx_log' = Insert(tx_log, tx'.tx,
                                           Transaction("withdrawal", c, tx'.tx, Some(a)))
                 /\ outcome' # "applied"
                    => /\ ledger'[c] = acc
                       /\ tx_log' = tx_log]_vars

\* a withdrawal of a positive amount was applied and is in the log
C12_Witness ==
    /\ tx.kind = "withdrawal"
    /\ outcome = "applied"
    /\ unwrap(tx.amount) > 0
    /\ tx_log[tx.tx].kind = "withdrawal"

\* C13: a dispute of tx t by client c is applied if and only if t is logged
\* and c.available >= the logged amount, deposit or withdrawal alike;
\* applied, it moves exactly that amount from available to held and leaves
\* total, locked and the log, the entry of t included, as they were.
C13_Dispute ==
    [][(Processed /\ tx'.kind = "dispute")
          => LET c == tx'.client
                 acc == Acct(ledger, c)
                 known == tx'.tx \in DOMAIN tx_log
             IN  /\ outcome' = "applied"
                    <=> (known /\ FGe(acc.available, unwrap(tx_log[tx'.tx].amount)))
                 /\ outcome' = "applied"
                    => ledger'[c] =
                         [acc EXCEPT !.available = FSub(@, unwrap(tx_log[tx'.tx].amount)),
                                     !.held = FAdd(@, unwrap(tx_log[tx'.tx].amount))]
                 /\ outcome' # "applied" => ledger'[c] = acc
                 /\ tx_log' = tx_log]_vars

\* a dispute of a logged withdrawal was applied
C13_Witness ==
    /\ tx.kind = "dispute"
    /\ outcome = "applied"
    /\ tx_log[tx.tx].kind = "withdrawal"
    /\ ledger[tx.client].held # Zero

\* C14: a resolve of tx t by client c is applied if and only if t is logged
\* and c.held >= the logged amount; applied, it moves exactly that amount
\* from held to available and leaves total, locked and the log as they were.
C14_Resolve ==
    [][(Processed /\ tx'.kind = "resolve")
          => LET c == tx'.client
                 acc == Acct(ledger, c)
                 known == tx'.tx \in DOMAIN tx_log
             IN  /\ outcome' = "applied"
                    <=> (known /\ FGe(acc.held, unwrap(tx_log[tx'.tx].amount)))
                 /\ outcome' = "applied"
                    => ledger'[c] =
                         [acc EXCEPT !.held = FSub(@, unwrap(tx_log[tx'.tx].amount)),
                                     !.available = FAdd(@, unwrap(tx_log[tx'.tx].amount))]
                 /\ outcome' # "applied" => ledger'[c] = acc
                 /\ tx_log' = tx_log]_vars

\* a resolve gave held funds of a positive amount back to available
C14_Witness ==
    /\ tx.kind = "resolve"
    /\ outcome = "applied"
    /\ FLt(Zero, unwrap(tx_log[tx.tx].amount))
    /\ tx.client \in DOMAIN prev
    /\ FLt(prev[tx.client].available, ledger[tx.client].available)

\* C15: a chargeback of tx t by client c on a logged deposit locks c, takes
\* exactly the logged amount from c.held and c.total, leaves c.available and
\* removes t from the log; on a logged withdrawal it leaves the log exactly
\* as it was and changes no balance and no lock flag.
C15_Chargeback ==
    [][(Processed /\ tx'.kind = "chargeback" /\ tx'.tx \in DOMAIN tx_log)
          => LET c == tx'.client
                 acc == Acct(ledger, c)
                 entry == tx_log[tx'.tx]
             IN  /\ entry.kind = "deposit"
                    => /\ ledger'[c] = [acc EXCEPT !.locked = TRUE,
                                                   !.held = FSub(@, unwrap(entry.amount)),
                                                   !.total = FSub(@, unwrap(entry.amount))]
                       /\ tx_log' = Remove(tx_log, tx'.tx)
                       /\ tx'.tx \notin DOMAIN tx_log'
                 /\ entry.kind = "withdrawal"
                    => /\ tx_log' = tx_log
                       /\ NoAccountChanged]_vars

\* a chargeback on a deposit took its amount out of held funds and locked
\* the account, the entry being gone
C15_Witness ==
    /\ tx.kind = "chargeback"
    /\ outcome = "applied"
    /\ tx.tx \notin DOMAIN tx_log
    /\ ledger[tx.client].locked
    /\ tx.client \in DOMAIN prev
    /\ FLt(ledger[tx.client].held, prev[tx.client].held)
    /\ FGe(ledger[tx.client].held, Zero)

\* the log entry that an accepted deposit or withdrawal t leaves
LogEntryOf(t) == [t EXCEPT !.amount = Some(Normalize(unwrap(t.amount)))]

\* C16: every log entry is a deposit or a withdrawal with its amount present,
\* stored under its own tx id; an entry appears or changes only in the step
\* that accepts a deposit or withdrawal with that id, as a copy of that
\* record, so that no lookup of a logged amount finds it missing.
C16_LogHoldsAcceptedRecords ==
    [][/\ \A t \in DOMAIN tx_log' :
             /\ IsMoney(tx_log'[t])
             /\ tx_log'[t].amount # None
             /\ tx_log'[t].tx = t
       /\ \A t \in DOMAIN tx_log' :
             (t \notin DOMAIN tx_log \/ tx_log'[t] # tx_log[t])
             => /\ Processed
                /\ IsMoney(tx')
                /\ tx'.amount # None
                /\ tx'.tx = t
                /\ outcome' = "applied"
                /\ tx_log'[t] = LogEntryOf(tx')]_vars

\* a dispute was applied on a logged entry and the entry is still the
\* accepted record, amount included
C16_Witness ==
    /\ tx.kind = "dispute"
    /\ outcome = "applied"
    /\ tx.amount = None
    /\ tx_log[tx.tx].amount # None
    /\ IsMoney(tx_log[tx.tx])
    /\ FLt(Zero, ledger[tx.client].held)

\* C17: an accepted deposit or withdrawal whose tx id is already logged
\* replaces that entry: the log then holds under that id the new record's
\* kind, client and (normalised) amount, every other entry is as it was, and
\* a dispute, resolve or chargeback on the id that follows works with the
\* new entry's amount and kind.
C17_RecordOverwrites ==
    [][/\ (Processed /\ IsMoney(tx') /\ outcome' = "applied"
              /\ tx'.tx \in DOMAIN tx_log)
          => /\ DOMAIN tx_log' = DOMAIN tx_log
             /\ tx_log'[tx'.tx] = LogEntryOf(tx')
             /\ \A t \in DOMAIN tx_log \ {tx'.tx} : tx_log'[t] = tx_log[t]
       /\ (IsMoney(tx) /\ outcome = "applied" /\ Processed
              /\ tx'.kind \in {"dispute", "resolve", "chargeback"}
              /\ tx'.tx = tx.tx /\ outcome' = "applied")
          => LET c == tx'.client
                 a == Normalize(unwrap(tx.amount))
             IN  /\ tx'.kind = "dispute"
                    => ledger'[c].held = FAdd(Acct(ledger, c).held, a)
                 /\ tx'.kind = "resolve"
                    => ledger'[c].held = FSub(Acct(ledger, c).held, a)
                 /\ tx'.kind = "chargeback"
                    => (tx.kind = "deposit"
                        /\ ledger'[c].total = FSub(Acct(ledger, c).total, a))]_vars

\* the second record was accepted under the tx id of the first, which the
\* other client had used: after two records the log holds one entry, the
\* second record's, and both clients own funds
C17_Witness ==
    /\ n = 2
    /\ IsMoney(tx)
    /\ outcome = "applied"
    /\ DOMAIN tx_log = {tx.tx}
    /\ tx_log[tx.tx] = LogEntryOf(tx)
    /\ \E c \in DOMAIN ledger : c # tx.client /\ ledger[c].total # Zero

\* C18: accounts are created on first reference and never removed: the
\* ledger starts empty, every processed record, whatever its kind and its
\* outcome, adds exactly its client id to the set of accounts, and no other
\* step changes that set; an account created by a record that is not applied
\* has available = held = total = 0 and is unlocked, and one created by an
\* applied deposit holds exactly the deposit.
C18_AccountsAreClientsSeen ==
    /\ DOMAIN ledger = {}
    /\ [][/\ Processed => DOMAIN ledger' = DOMAIN ledger \cup {tx'.client}
          /\ ~Processed => DOMAIN ledger' = DOMAIN ledger
          /\ (Processed /\ tx'.client \notin DOMAIN ledger)
             => LET c == tx'.client
                    zero == [client |-> c, available |-> Zero, held |-> Zero,
                             total |-> Zero, locked |-> FALSE]
                IN  /\ outcome' # "applied" => ledger'[c] = zero
                    /\ (outcome' = "applied" /\ tx'.kind = "deposit")
                       => ledger'[c] =
                            [zero EXCEPT !.available = FAdd(Zero, Normalize(unwrap(tx'.amount))),
                                         !.total = FAdd(Zero, Normalize(unwrap(tx'.amount)))]]_vars

\* a rejected record of a client not seen before created its zeroed account
\* next to an account that holds funds
C18_Witness ==
    /\ outcome = "rejected"
    /\ tx.client \notin DOMAIN prev
    /\ ledger[tx.client].total = Zero
    /\ ~ledger[tx.client].locked
    /\ \E c \in DOMAIN prev : ledger[c].total # Zero

\* C19: a record changes at most the account of its own client; every other
\* account is as it was, also when a dispute, resolve or chargeback names a
\* tx that was recorded for another client.
C19_OnlyOwnAccountChanges ==
    [][Processed
          => \A c \in DOMAIN ledger' \ {tx'.client} :
                c \in DOMAIN ledger /\ ledger'[c] = ledger[c]]_vars

\* a dispute by one client of a tx recorded for another client moved the
\* disputing client's funds
C19_Witness ==
    /\ tx.kind = "dispute"
    /\ outcome = "applied"
    /\ tx_log[tx.tx].client # tx.client
    /\ tx_log[tx.tx].client \in DOMAIN ledger
    /\ tx.client \in DOMAIN prev
    /\ ledger[tx.client].held # prev[tx.client].held

\* C20: an account becomes locked only in the step that applies a chargeback
\* of its client to a logged deposit, and a locked account stays locked.
C20_LockedOnlyByChargeback ==
    [][\A c \in DOMAIN ledger' :
          /\ (ledger'[c].locked /\ (c \notin DOMAIN ledger \/ ~ledger[c].locked))
             => /\ Processed
                /\ tx'.kind = "chargeback"
                /\ tx'.client = c
                /\ tx'.tx \in DOMAIN tx_log
                /\ tx_log[tx'.tx].kind = "deposit"
                /\ outcome' = "applied"
          /\ (c \in DOMAIN ledger /\ ledger[c].locked) => ledger'[c].locked]_vars

\* a resolve was applied on a locked account, which is still locked
C20_Witness ==
    /\ tx.kind = "resolve"
    /\ outcome = "applied"
    /\ tx.client \in DOMAIN prev
    /\ prev[tx.client].locked
    /\ ledger[tx.client].locked

====
